---- MODULE Spec2Model ----
(***************************************************************************)
(* The alert/session subsystem of app.py: the alert ledger (alerts_log,    *)
(* _next_alert_id, alerts_lock), the start/stop request handlers and the   *)
(* camera_detection background threads with the globals they share         *)
(* (camera_running, frame, video_writer, session_folder, all_sessions).    *)
(*                                                                         *)
(* A step of a thread is one access to the shared state (a global, the     *)
(* ledger under its lock, a file); the statements around it that touch     *)
(* only what the thread owns (its VideoCapture, the detector's result, the *)
(* geolocation lookup) are folded into that step.  The set-up of a session *)
(* on lines 106-110 is taken as one step.                                  *)
(***************************************************************************)
EXTENDS Integers, Sequences, FiniteSets, TLC

\* ------------------------------------------------------------------ bounds
\* camera_detection threads ever spawned
MaxTasks == 2
\* frames a frame source yields before it reports end-of-stream at the latest
MaxFrames == 1
\* seconds of wall clock that pass (the timestamps have second resolution)
MaxClock == 1
\* ledger length up to which detections (primary, heuristic, GPS) are flagged
MaxAlerts == 2
\* ledger length up to which a geolocation alert follows a flagged detection,
\* where the geolocation alerts are looked at
MaxGpsAlerts == 3
\* camera_detection threads started where the exports are looked at
SoloTasks == 1

Tasks == 1..MaxTasks

\* ------------------------------------------------------- program constants
\* confidences are in hundredths: 35 is 0.35
CONF_THRESH == 35

knife   == <<"k","n","i","f","e">>
gun     == <<"g","u","n">>
pistol  == <<"p","i","s","t","o","l">>
rifle   == <<"r","i","f","l","e">>
firearm == <<"f","i","r","e","a","r","m">>
fire    == <<"f","i","r","e">>
flame   == <<"f","l","a","m","e">>
smoke   == <<"s","m","o","k","e">>
person  == <<"p","e","r","s","o","n">>

ALERT_CLASSES == {knife, gun, pistol, rifle, firearm, fire, flame, smoke}

\* what the primary detector may report for one box: <<label, confidence>>
Detections == {<<knife, 90>>, <<gun, 34>>, <<person, 99>>}

\* Python's `sub in s` on strings
Contains(sub, s) ==
    \E i \in 0..(Len(s) - Len(sub)) : SubSeq(s, i + 1, i + Len(sub)) = sub

\* line 132
AlertType(name) ==
    IF Contains(fire, name) \/ Contains(flame, name) THEN "fire" ELSE "weapon"

\* lines 128-131: the detection raises an alert
IsAlert(name, conf) == ~(conf < CONF_THRESH) /\ name \in ALERT_CLASSES

\* ------------------------------------------------------------------ values
NoName == <<>>
Msg(text, name, conf) == [text |-> text, name |-> name, conf |-> conf]
MsgStarted  == Msg("Smart Surveillance started", NoName, 0)
MsgCamFail  == Msg("Camera failed to open", NoName, 0)
MsgReadFail == Msg("Frame read failed", NoName, 0)
MsgGps      == Msg("GPS Location", NoName, 0)
MsgSmall    == Msg("Small flame/matchstick detected", NoName, 0)
MsgDetected(name, conf) == Msg("detected", name, conf)

\* the dict built on lines 36-41; `by` is the calling thread (0: main), kept
\* for the properties only
NewAlert(id, time, msg, type, by) ==
    [id |-> id, time |-> time, msg |-> msg, type |-> type, by |-> by]

NoAlert == NewAlert(0, 0, Msg("", NoName, 0), "", 0)

\* line 43 without the increment
NextAlertId_stuck(n) == n

\* line 43
NextAlertId(n) == n + 1

\* frame k read from the source of thread t; None is NoFrame
Frame(t, k) == [src |-> t, n |-> k]
NoFrame == Frame(0, 0)

\* session_folder = None
NoFolder == -1
\* line 106: "sessions/" + now.strftime("%Y%m%d_%H%M%S")
FolderName(time) == time

\* video_writer = None
NoWriter == 0

\* [0.0, 0.0], and a coordinate that is not (degrees, whole)
Origin == <<0, 0>>
Fix == <<12, 77>>
\* the local `gps` before its first assignment
NoGps == <<>>

\* what geocoder.ip('me') may do: raise, or return a result g
GeoOutcomes ==
    {[raised |-> TRUE, ok |-> FALSE, latlng |-> NoGps],
     [raised |-> FALSE, ok |-> FALSE, latlng |-> NoGps],
     [raised |-> FALSE, ok |-> TRUE, latlng |-> Origin],
     [raised |-> FALSE, ok |-> TRUE, latlng |-> Fix]}

\* lines 65-73
get_gps_location(g) ==
    IF ~g.raised /\ g.ok THEN g.latlng ELSE Origin

\* no box is being examined
NoBox == <<NoName, 0>>

\* no response body was sent
NoBody == [route |-> "", status |-> 0, header |-> {}, rows |-> <<>>]

VARIABLES
    booted,          \* __main__ has run lines 260-262
    now,             \* wall clock, in seconds; the time that passes is taken
                     \* up where a session folder is named after it (line 106)
    alerts_log,      \* line 13
    next_alert_id,   \* line 14 (_next_alert_id)
    alerts_lock,     \* line 15: 0 free, else the holding thread
    camera_running,  \* line 16
    frame,           \* line 17
    video_writer,    \* line 18: NoWriter or the VideoWriter object (by creator)
    session_folder,  \* line 19
    all_sessions,    \* line 20
    startPending,    \* start_camera handlers between line 212 and line 214
    nspawned,        \* camera_detection threads started so far
    resp,            \* the last start/stop response
    pc,              \* per thread: position in camera_detection
    after,           \* per thread: where add_alert returns to
    alert,           \* per thread: add_alert's local `alert` / return value
    cap,             \* per thread: the VideoCapture: "none","open","failed","released"
    nread,           \* per thread: frames read so far; the local f is Frame(t, nread[t])
    sink,            \* per VideoWriter object: "none","open","failed","released"
    sinkFolder,      \* per VideoWriter object: folder of its recorded_video.mp4
    sinkFrames,      \* per VideoWriter object: the frames appended
    csvFiles,        \* the alerts_*.csv files written, in order
    gps,             \* per thread: the local `gps` of lines 139 and 152; the value is
                     \* dead once line 140 (153) has tested it and is dropped at the
                     \* thread's next step
    box,             \* per thread: the box (label, confidence) at line 127
    sent             \* the body of the last /alerts or /download_alerts response

shared == <<booted, now, alerts_log, next_alert_id, alerts_lock, camera_running,
            frame, video_writer, session_folder, all_sessions>>
control == <<startPending, nspawned, resp>>
locals == <<pc, after, alert, cap, nread, gps, box>>
files == <<sink, sinkFolder, sinkFrames, csvFiles, sent>>
vars == <<shared, control, locals, files>>

\* ------------------------------------------------------------------- Init
\* lines 13-20, before __main__
Init ==
    /\ booted = FALSE
    /\ now = 0
    /\ alerts_log = <<>>
    /\ next_alert_id = 1
    /\ alerts_lock = 0
    /\ camera_running = FALSE
    /\ frame = NoFrame
    /\ video_writer = NoWriter
    /\ session_folder = NoFolder
    /\ all_sessions = <<>>
    /\ startPending = 0
    /\ nspawned = 0
    /\ resp = ""
    /\ pc = [t \in Tasks |-> "idle"]
    /\ after = [t \in Tasks |-> ""]
    /\ alert = [t \in Tasks |-> NoAlert]
    /\ cap = [t \in Tasks |-> "none"]
    /\ nread = [t \in Tasks |-> 0]
    /\ sink = [t \in Tasks |-> "none"]
    /\ sinkFolder = [t \in Tasks |-> NoFolder]
    /\ sinkFrames = [t \in Tasks |-> <<>>]
    /\ csvFiles = <<>>
    /\ gps = [t \in Tasks |-> NoGps]
    /\ box = [t \in Tasks |-> NoBox]
    /\ sent = NoBody

\* a camera_detection thread that was started and has not terminated
Alive(t) == pc[t] \notin {"idle", "done", "raised_makedirs", "raised_model"}

\* --------------------------------------------------------------- __main__
\* lines 259-262: the startup alert is recorded before the server (and so any
\* other thread) exists, so add_alert runs here without interleaving
main ==
    /\ ~booted
    /\ booted' = TRUE
    /\ alerts_log' = Append(alerts_log, NewAlert(next_alert_id, now, MsgStarted, "info", 0))
    /\ next_alert_id' = NextAlertId(next_alert_id)
    /\ UNCHANGED <<now, alerts_lock, camera_running, frame, video_writer,
                   session_folder, all_sessions, control, locals, files>>

\* ------------------------------------------------------- request handlers
\* line 212 without the test of camera_running
StartMayProceed_unguarded(running) == TRUE

\* line 212: the handler reads camera_running
StartMayProceed(running) == ~running

\* lines 212-213, with at most maxTasks threads started
start_camera_check_upto(maxTasks) ==
    /\ booted
    /\ IF StartMayProceed(camera_running)
         THEN /\ nspawned + startPending < maxTasks
              /\ startPending' = startPending + 1
              /\ UNCHANGED resp
         ELSE /\ resp' = "Camera already running"
              /\ UNCHANGED startPending
    /\ UNCHANGED <<shared, nspawned, locals, files>>

start_camera_check == start_camera_check_upto(MaxTasks)

\* lines 214-216
start_camera_spawn ==
    /\ startPending > 0
    /\ startPending' = startPending - 1
    /\ camera_running' = TRUE
    /\ nspawned' = nspawned + 1
    /\ pc' = [pc EXCEPT ![nspawned + 1] = "open"]
    /\ resp' = "Camera started"
    /\ UNCHANGED <<booted, now, alerts_log, next_alert_id, alerts_lock, frame,
                   video_writer, session_folder, all_sessions,
                   after, alert, cap, nread, gps, box, files>>

\* line 222 without the test of camera_running
StopMayProceed_unguarded(running) == TRUE

\* line 222: the handler reads camera_running
StopMayProceed(running) == running

\* lines 220-225
stop_camera ==
    /\ booted
    /\ IF StopMayProceed(camera_running)
         THEN /\ camera_running' = FALSE
              /\ resp' = "Camera stopping"
         ELSE /\ resp' = "Camera not running"
              /\ UNCHANGED camera_running
    /\ UNCHANGED <<booted, now, alerts_log, next_alert_id, alerts_lock, frame,
                   video_writer, session_folder, all_sessions,
                   startPending, nspawned, locals, files>>

\* ------------------------------------------------------------- add_alert
\* a call of add_alert(msg, alert_type) by thread t that returns to `ret`:
\* binding the arguments touches nothing shared
CallAddAlert(t, msg, type, ret) ==
    /\ pc' = [pc EXCEPT ![t] = "add_alert"]
    /\ after' = [after EXCEPT ![t] = ret]
    /\ alert' = [alert EXCEPT ![t] = NewAlert(0, 0, msg, type, t)]

\* no call of add_alert is in progress in thread t: every caller drops the
\* returned dict
Return(t) ==
    /\ after' = [after EXCEPT ![t] = ""]
    /\ alert' = [alert EXCEPT ![t] = NoAlert]

\* lines 123-158 up to the next alert: the next box of the result that raises
\* an alert (lines 127-133; the others are skipped by `continue`), or, after
\* the last box, what detect_small_fire says (lines 148-149)
BoxesOnward(t) ==
    \/ \E d \in Detections :
         /\ IsAlert(d[1], d[2])
         /\ Len(alerts_log) < MaxAlerts
         /\ CallAddAlert(t, MsgDetected(d[1], d[2]), AlertType(d[1]), "gps_boxes")
    \/ /\ Len(alerts_log) < MaxAlerts
       /\ CallAddAlert(t, MsgSmall, "fire", "gps_plot")
    \/ /\ pc' = [pc EXCEPT ![t] = "plot"]
       /\ Return(t)

\* lines 35-42: the lock is taken, the dict is built and appended
add_alert_append(t) ==
    /\ pc[t] = "add_alert"
    /\ alerts_lock = 0
    /\ alerts_lock' = t
    /\ LET a == NewAlert(next_alert_id, now, alert[t].msg, alert[t].type, t)
       IN /\ alerts_log' = Append(alerts_log, a)
          /\ alert' = [alert EXCEPT ![t] = a]
    /\ pc' = [pc EXCEPT ![t] = "add_alert_incr"]
    /\ gps' = [gps EXCEPT ![t] = NoGps]
    /\ UNCHANGED <<booted, now, next_alert_id, camera_running, frame, video_writer,
                   session_folder, all_sessions, control, after, cap, nread, box, files>>

\* lines 43-45: the id advances, the lock is released and `alert` is returned
\* to the caller, which goes on to its next shared access
add_alert_incr_upto(t, maxGps) ==
    /\ pc[t] = "add_alert_incr"
    /\ alerts_lock = t
    /\ next_alert_id' = NextAlertId(next_alert_id)
    /\ alerts_lock' = 0
    /\ \/ /\ after[t] \in {"camfail_flag", "release", "plot"}
          /\ pc' = [pc EXCEPT ![t] = after[t]]
          /\ Return(t)
          /\ UNCHANGED gps
       \/ /\ after[t] = "boxes"
          /\ BoxesOnward(t)
          /\ UNCHANGED gps
       \/ \* lines 139-145 and 152-158
          /\ after[t] \in {"gps_boxes", "gps_plot"}
          /\ \E g \in GeoOutcomes :
               /\ gps' = [gps EXCEPT ![t] = get_gps_location(g)]
               /\ IF gps'[t] # Origin
                    THEN /\ Len(alerts_log) < maxGps
                         /\ CallAddAlert(t, MsgGps, "info",
                                         IF after[t] = "gps_boxes" THEN "boxes" ELSE "plot")
                    ELSE IF after[t] = "gps_boxes"
                           THEN BoxesOnward(t)
                           ELSE /\ pc' = [pc EXCEPT ![t] = "plot"]
                                /\ Return(t)
    /\ UNCHANGED <<booted, now, alerts_log, camera_running, frame, video_writer,
                   session_folder, all_sessions, control, cap, nread, box, files>>

add_alert_incr(t) == add_alert_incr_upto(t, MaxAlerts)

\* ------------------------------------------------------ camera_detection
\* lines 96-98: the frame source cannot be opened
cd_open_failed(t) ==
    /\ pc[t] = "open"
    /\ cap' = [cap EXCEPT ![t] = "failed"]
    /\ CallAddAlert(t, MsgCamFail, "info", "camfail_flag")
    /\ UNCHANGED <<shared, control, nread, gps, box, files>>

\* lines 99 and 172 left out
ClearRunning_forgotten(running) == running

\* the write of line 99, and of line 172
ClearRunning(running) == FALSE

\* lines 99-100
cd_camfail(t) ==
    /\ pc[t] = "camfail_flag"
    /\ camera_running' = ClearRunning(camera_running)
    /\ pc' = [pc EXCEPT ![t] = "done"]
    /\ UNCHANGED <<booted, now, alerts_log, next_alert_id, alerts_lock, frame,
                   video_writer, session_folder, all_sessions, control,
                   after, alert, cap, nread, gps, box, files>>

\* lines 96-110 with the frame source open: the session folder is named after
\* the clock; os.makedirs creates it, or raises and ends the thread;
\* cv2.VideoWriter(...) returns an object whether or not the file could be
\* opened (isOpened() is never asked)
cd_session(t) ==
    /\ pc[t] = "open"
    /\ cap' = [cap EXCEPT ![t] = "open"]
    /\ \E elapsed \in 0..(MaxClock - now) : now' = now + elapsed
    /\ session_folder' = FolderName(now')
    /\ \/ /\ pc' = [pc EXCEPT ![t] = "raised_makedirs"]
          /\ UNCHANGED <<all_sessions, video_writer, sink, sinkFolder>>
       \/ /\ all_sessions' = Append(all_sessions, session_folder')
          /\ \E opened \in BOOLEAN :
               sink' = [sink EXCEPT ![t] = IF opened THEN "open" ELSE "failed"]
          /\ sinkFolder' = [sinkFolder EXCEPT ![t] = session_folder']
          /\ video_writer' = t
          /\ pc' = [pc EXCEPT ![t] = "loop"]
    /\ UNCHANGED <<booted, alerts_log, next_alert_id, alerts_lock, camera_running,
                   frame, control, after, alert, nread, gps, box, sinkFrames, csvFiles, sent>>

\* lines 112-120: the loop condition reads camera_running; cap.read() fails, or
\* yields the next frame, on which the primary detector returns or raises
cd_loop(t) ==
    /\ pc[t] = "loop"
    /\ IF camera_running
         THEN \/ /\ CallAddAlert(t, MsgReadFail, "info", "release")
                 /\ UNCHANGED nread
              \/ /\ nread[t] < MaxFrames
                 /\ nread' = [nread EXCEPT ![t] = @ + 1]
                 /\ \/ /\ pc' = [pc EXCEPT ![t] = "raised_model"]
                       /\ UNCHANGED <<after, alert>>
                    \/ BoxesOnward(t)
         ELSE /\ pc' = [pc EXCEPT ![t] = "release"]
              /\ UNCHANGED <<after, alert, nread>>
    /\ UNCHANGED <<shared, control, cap, gps, box, files>>

\* lines 160-163: r.plot() or f.copy(), either is the annotated current frame
cd_plot(t) ==
    /\ pc[t] = "plot"
    /\ frame' = Frame(t, nread[t])
    /\ pc' = [pc EXCEPT ![t] = "write"]
    /\ gps' = [gps EXCEPT ![t] = NoGps]
    /\ UNCHANGED <<booted, now, alerts_log, next_alert_id, alerts_lock, camera_running,
                   video_writer, session_folder, all_sessions, control,
                   after, alert, cap, nread, box, files>>

\* VideoWriter.write: a writer that is not open drops the frame
WriteFrame(state, frames, image) ==
    IF state = "open" THEN Append(frames, image) ELSE frames

\* lines 165-167
cd_write(t) ==
    /\ pc[t] = "write"
    /\ IF video_writer # NoWriter
         THEN sinkFrames' = [sinkFrames EXCEPT ![video_writer] =
                                WriteFrame(sink[video_writer], @, frame)]
         ELSE UNCHANGED sinkFrames
    /\ pc' = [pc EXCEPT ![t] = "loop"]
    /\ UNCHANGED <<shared, control, after, alert, cap, nread, gps, box, sink, sinkFolder, csvFiles, sent>>

\* lines 169-171
cd_release(t) ==
    /\ pc[t] = "release"
    /\ cap' = [cap EXCEPT ![t] = "released"]
    /\ IF video_writer # NoWriter
         THEN sink' = [sink EXCEPT ![video_writer] = "released"]
         ELSE UNCHANGED sink
    /\ pc' = [pc EXCEPT ![t] = "flag"]
    /\ UNCHANGED <<shared, control, after, alert, nread, gps, box, sinkFolder, sinkFrames, csvFiles, sent>>

\* line 172
cd_flag(t) ==
    /\ pc[t] = "flag"
    /\ camera_running' = ClearRunning(camera_running)
    /\ pc' = [pc EXCEPT ![t] = "save"]
    /\ UNCHANGED <<booted, now, alerts_log, next_alert_id, alerts_lock, frame,
                   video_writer, session_folder, all_sessions, control,
                   after, alert, cap, nread, gps, box, files>>

\* lines 84 and 233: fieldnames=alerts_log[0].keys(), the keys of the dict of
\* lines 36-41 (`by` is not one of them)
Fieldnames(log) == (DOMAIN log[1]) \ {"by"}

\* writer.writerows without the first dict
writerows_skipfirst(log) == Tail(log)

\* lines 86 and 235: writer.writerows(alerts_log) writes one row per dict
writerows(log) == log

\* lines 76-88: the file written by save_alerts_csv
CsvFile(folder, time, log, t) ==
    [folder |-> folder, time |-> time, header |-> Fieldnames(log),
     rows |-> writerows(log), by |-> t]

\* line 173
cd_save(t) ==
    /\ pc[t] = "save"
    /\ IF alerts_log = <<>>
         THEN UNCHANGED csvFiles
         ELSE csvFiles' = Append(csvFiles, CsvFile(session_folder, now, alerts_log, t))
    /\ pc' = [pc EXCEPT ![t] = "done"]
    /\ UNCHANGED <<shared, control, after, alert, cap, nread, gps, box, sink, sinkFolder,
                   sinkFrames, sent>>

\* one step of thread t
TaskStep(t) ==
    \/ add_alert_append(t)
    \/ add_alert_incr(t)
    \/ cd_open_failed(t)
    \/ cd_camfail(t)
    \/ cd_session(t)
    \/ cd_loop(t)
    \/ cd_plot(t)
    \/ cd_write(t)
    \/ cd_release(t)
    \/ cd_flag(t)
    \/ cd_save(t)

Next ==
    \/ main
    \/ start_camera_check
    \/ start_camera_spawn
    \/ stop_camera
    \/ \E t \in Tasks : TaskStep(t)

Spec == Init /\ [][Next]_vars

\* the threads are scheduled: a thread that can take a step eventually takes one
FairSpec == Spec /\ \A t \in Tasks : WF_vars(TaskStep(t))

\* ------------------------------------------- one box of a detection result
\* what the primary detector may report for the box that is looked at
Labels == ALERT_CLASSES \cup {person}
Confidences == {0, 34, 35, 36, 90, 100}

\* the first run is in its first iteration, line 118 has returned a result
\* and the loop of line 127 is at one of its boxes
DetectInit ==
    /\ booted = TRUE
    /\ now = 0
    /\ alerts_log = <<NewAlert(1, 0, MsgStarted, "info", 0)>>
    /\ next_alert_id = 2
    /\ alerts_lock = 0
    /\ camera_running = TRUE
    /\ frame = NoFrame
    /\ video_writer = 1
    /\ session_folder = FolderName(0)
    /\ all_sessions = <<FolderName(0)>>
    /\ startPending = 0
    /\ nspawned = 1
    /\ resp = "Camera started"
    /\ pc = [t \in Tasks |-> IF t = 1 THEN "box" ELSE "idle"]
    /\ after = [t \in Tasks |-> ""]
    /\ alert = [t \in Tasks |-> NoAlert]
    /\ cap = [t \in Tasks |-> IF t = 1 THEN "open" ELSE "none"]
    /\ nread = [t \in Tasks |-> IF t = 1 THEN 1 ELSE 0]
    /\ sink = [t \in Tasks |-> IF t = 1 THEN "open" ELSE "none"]
    /\ sinkFolder = [t \in Tasks |-> IF t = 1 THEN FolderName(0) ELSE NoFolder]
    /\ sinkFrames = [t \in Tasks |-> <<>>]
    /\ csvFiles = <<>>
    /\ gps = [t \in Tasks |-> NoGps]
    /\ \E name \in Labels, conf \in Confidences :
         box = [t \in Tasks |-> IF t = 1 THEN <<name, conf>> ELSE NoBox]
    /\ sent = NoBody

\* lines 127-133 for the box at hand, then on to the rest of the result
cd_box(t) ==
    /\ pc[t] = "box"
    /\ IF IsAlert(box[t][1], box[t][2])
         THEN CallAddAlert(t, MsgDetected(box[t][1], box[t][2]),
                           AlertType(box[t][1]), "gps_boxes")
         ELSE BoxesOnward(t)
    /\ UNCHANGED <<shared, control, cap, nread, gps, box, files>>

\* the iteration up to line 166
DetectNext ==
    \E t \in Tasks :
        \/ cd_box(t)
        \/ add_alert_append(t)
        \/ add_alert_incr(t)
        \/ cd_plot(t)
        \/ cd_write(t)

DetectSpec == DetectInit /\ [][DetectNext]_vars

\* --------------------------------- the program with geolocation alerts
GpsTaskStep(t) ==
    \/ add_alert_append(t)
    \/ add_alert_incr_upto(t, MaxGpsAlerts)
    \/ cd_open_failed(t)
    \/ cd_camfail(t)
    \/ cd_session(t)
    \/ cd_loop(t)
    \/ cd_plot(t)
    \/ cd_write(t)
    \/ cd_release(t)
    \/ cd_flag(t)
    \/ cd_save(t)

GpsNext ==
    \/ main
    \/ start_camera_check
    \/ start_camera_spawn
    \/ stop_camera
    \/ \E t \in Tasks : GpsTaskStep(t)

GpsSpec == Init /\ [][GpsNext]_vars

\* ------------------------------------------- the program with its exports
\* app.py is served by a WSGI server that imports it: lines 259-262 do not
\* run and the ledger starts empty
serve ==
    /\ ~booted
    /\ booted' = TRUE
    /\ UNCHANGED <<now, alerts_log, next_alert_id, alerts_lock, camera_running, frame,
                   video_writer, session_folder, all_sessions, control, locals, files>>

\* lines 203-206
get_alerts ==
    /\ booted
    /\ alerts_lock = 0
    /\ sent' = [route |-> "/alerts", status |-> 200, header |-> {}, rows |-> alerts_log]
    /\ UNCHANGED <<shared, control, locals, sink, sinkFolder, sinkFrames, csvFiles>>

\* lines 228-241
download_alerts ==
    /\ booted
    /\ alerts_lock = 0
    /\ sent' = IF alerts_log = <<>>
                THEN [route |-> "/download_alerts", status |-> 404,
                      header |-> {}, rows |-> <<>>]
                ELSE [route |-> "/download_alerts", status |-> 200,
                      header |-> Fieldnames(alerts_log), rows |-> writerows(alerts_log)]
    /\ UNCHANGED <<shared, control, locals, sink, sinkFolder, sinkFrames, csvFiles>>

ExportNext ==
    \/ main
    \/ serve
    \/ start_camera_check_upto(SoloTasks)
    \/ start_camera_spawn
    \/ stop_camera
    \/ get_alerts
    \/ download_alerts
    \/ \E t \in Tasks : TaskStep(t)

ExportSpec == Init /\ [][ExportNext]_vars

\* ------------------------------------------------------------ properties
\* the alerts a thread (0: main) has recorded, in order
AlertsBy(t) == SelectSeq(alerts_log, LAMBDA a : a.by = t)

\* the frames 1..n of the source of thread t, in source order
FramesOf(t, n) == [k \in 1..n |-> Frame(t, k)]

\* everything but the last response
allButResp == <<shared, startPending, nspawned, locals, files>>

\* C1: the ids in alerts_log are 1,2,3,... in insertion order (increasing, no
\* duplicate, no gap, none reused by a later run), whichever threads appended
\* them, and the dict a call of add_alert is about to return is the one it
\* appended.
C1_LedgerIds ==
    /\ \A i \in 1..Len(alerts_log) : alerts_log[i].id = i
    /\ alerts_lock = 0 => next_alert_id = Len(alerts_log) + 1
    /\ \A t \in Tasks :
         pc[t] = "add_alert_incr" =>
           /\ alert[t].id \in 1..Len(alerts_log)
           /\ alerts_log[alert[t].id] = alert[t]

\* C1: alerts of main and of two runs are in the ledger, and a call is
\* about to return
C1_Witness ==
    /\ Len(alerts_log) >= 3
    /\ AlertsBy(1) # <<>>
    /\ AlertsBy(2) # <<>>
    /\ \E t \in Tasks : pc[t] = "add_alert_incr"

\* C2: at most one camera_detection thread is alive.
C2_OneTaskAlive == Cardinality({t \in Tasks : Alive(t)}) <= 1

\* C3: a start_camera call made while camera_running is True answers
\* "Camera already running" and changes nothing else (no thread, no session,
\* no video sink); a call gets past line 212 only while camera_running is
\* False, and only such a call starts a thread and sets camera_running.
C3_StartWhileRunning ==
    [][ /\ (resp' = "Camera already running" /\ resp' # resp)
             => (camera_running /\ UNCHANGED allButResp)
        /\ startPending' > startPending => ~camera_running
        /\ nspawned' # nspawned
             => /\ nspawned' = nspawned + 1
                /\ startPending' = startPending - 1
                /\ resp' = "Camera started"
                /\ camera_running'
        /\ (~camera_running /\ camera_running') => nspawned' = nspawned + 1
        /\ (resp' = "Camera started" /\ resp' # resp) => nspawned' = nspawned + 1
      ]_vars

\* C3: a start request was refused while a run with a session is going on
C3_Witness ==
    /\ resp = "Camera already running"
    /\ camera_running
    /\ nspawned = 1
    /\ Len(all_sessions) = 1
    /\ sink[1] = "open"

\* C4: a stop_camera call made while camera_running is False answers
\* "Camera not running" and changes nothing else.
C4_StopWhileIdle ==
    [][ /\ (resp' = "Camera not running" /\ resp' # resp)
             => (~camera_running /\ UNCHANGED allButResp)
        /\ (resp' = "Camera stopping" /\ resp' # resp) => camera_running
      ]_vars

\* C4: a stop request was refused after a run has come and gone
C4_Witness ==
    /\ resp = "Camera not running"
    /\ ~camera_running
    /\ video_writer # NoWriter
    /\ frame # NoFrame
    /\ csvFiles # <<>>

\* C5: at most one video sink opened by a run is unreleased, and while
\* camera_running it is the sink of the most recently created session.
C5_OneActiveSession ==
    /\ Cardinality({t \in Tasks : sink[t] = "open"}) <= 1
    /\ \A t \in Tasks :
         (camera_running /\ sink[t] = "open") => video_writer = t

\* thread t is in its while loop with its frame source open
InLoop(t) ==
    /\ cap[t] = "open"
    /\ pc[t] \in {"loop", "add_alert", "add_alert_incr", "plot", "write"}

\* thread t went through lines 169-173 and left its session closed: the
\* source released, the sink of its session closed, the ledger exported
ReachedIdle(t) ==
    /\ pc[t] = "done"
    /\ cap[t] = "released"
    /\ sink[t] # "open"
    /\ \E i \in 1..Len(csvFiles) : csvFiles[i].by = t

\* C6: once stop_camera is accepted while a loop is running, that loop
\* eventually reaches Idle: source released, its session's sink closed,
\* camera_running cleared, ledger exported (a run whose detector raised is
\* C9's case and is left aside here).
C6_StopReachesIdle ==
    \A t \in Tasks :
      (resp = "Camera stopping" /\ InLoop(t)) ~> (ReachedIdle(t) \/ pc[t] = "raised_model")

\* C7: a run whose frame source cannot be opened records exactly one alert,
\* of type info, creates no session (nothing added to all_sessions, no sink,
\* no frame read or written, the globals of the session untouched) and ends
\* by writing camera_running = False.
C7_OpenFailure ==
    /\ [](\A t \in Tasks :
            cap[t] = "failed" =>
              /\ sink[t] = "none" /\ sinkFolder[t] = NoFolder /\ sinkFrames[t] = <<>>
              /\ nread[t] = 0
              /\ \A u \in Tasks : \A i \in 1..Len(sinkFrames[u]) : sinkFrames[u][i].src # t
              /\ Len(AlertsBy(t)) <= 1
              /\ pc[t] \in {"camfail_flag", "done"} =>
                   /\ Len(AlertsBy(t)) = 1
                   /\ AlertsBy(t)[1].type = "info"
                   /\ AlertsBy(t)[1].msg = MsgCamFail)
    /\ [](Len(all_sessions) = Cardinality({t \in Tasks : sink[t] # "none"}))
    /\ [][\A t \in Tasks :
            (cap'[t] = "failed" /\ pc'[t] # pc[t]) =>
              /\ UNCHANGED <<all_sessions, video_writer, session_folder, frame, files>>
              /\ pc'[t] = "done" => ~camera_running']_vars

\* C7: a run that could not open its source has ended, with the flag cleared,
\* beside a run that has a session
C7_Witness ==
    \E t, u \in Tasks :
      /\ cap[t] = "failed" /\ pc[t] = "done"
      /\ ~camera_running
      /\ sink[u] = "open"

\* C8: a run that read N frames, then end-of-stream, and flagged nothing has
\* written exactly those N frames, in order, to its session's sink, has
\* recorded the one info alert "Frame read failed", and has exported the
\* ledger with that alert as its only row of the run.
C8_FramesThenEof ==
    \A t \in Tasks :
      (pc[t] = "done" /\ cap[t] = "released" /\ Len(AlertsBy(t)) = 1
         /\ AlertsBy(t)[1].msg = MsgReadFail) =>
        /\ sinkFrames[t] = FramesOf(t, nread[t])
        /\ AlertsBy(t)[1].type = "info"
        /\ \E i \in 1..Len(csvFiles) :
             /\ csvFiles[i].by = t
             /\ SelectSeq(csvFiles[i].rows, LAMBDA a : a.by = t) = AlertsBy(t)

\* C9: a run whose primary detector raised is handled like a source failure:
\* an info alert is recorded, the frame source is released, the sink closed.
C9_DetectorFailureHandled ==
    \A t \in Tasks :
      pc[t] = "raised_model" =>
        /\ cap[t] = "released"
        /\ sink[t] # "open"
        /\ \E i \in 1..Len(alerts_log) :
             alerts_log[i].by = t /\ alerts_log[i].type = "info"

\* C10: a run whose session directory could not be created or whose sink
\* could not be opened pulls no frame, and does not leave camera_running set
\* once it is over.
C10_NoLoopWithoutRecorder ==
    \A t \in Tasks :
      /\ sink[t] = "failed" => nread[t] = 0
      /\ (pc[t] = "raised_makedirs" /\ startPending = 0 /\ \A u \in Tasks : ~Alive(u))
           => ~camera_running

\* C11: a primary detection (label, confidence) raises an alert exactly when
\* the confidence is at least 0.35 and the label is one of the eight
\* restricted labels; the alert is of type fire for the labels fire and flame
\* and of type weapon for every other restricted label
C11_DetectionAlerts ==
    [][\A t \in Tasks :
         (pc[t] = "box" /\ pc'[t] # "box") =>
            LET name == box[t][1]
                conf == box[t][2]
                raised == /\ pc'[t] = "add_alert"
                          /\ alert'[t].msg = MsgDetected(name, conf)
            IN /\ raised <=> (conf >= 35 /\ name \in {knife, gun, pistol, rifle,
                                                      firearm, fire, flame, smoke})
               /\ raised => alert'[t].type =
                               IF name \in {fire, flame} THEN "fire" ELSE "weapon"]_vars

\* C12: a geolocation alert is recorded exactly when get_gps_location returned
\* a coordinate other than [0.0, 0.0], and in the ledger it comes immediately
\* after the fire/weapon alert of the detection it belongs to
C12_GpsFollowsDetection ==
    /\ \A t \in Tasks :
         gps[t] # NoGps =>
            (gps[t] # Origin <=> (pc[t] = "add_alert" /\ alert[t].msg = MsgGps))
    /\ \A i \in 1..Len(alerts_log) :
         alerts_log[i].msg = MsgGps =>
            /\ i > 1
            /\ alerts_log[i - 1].type \in {"fire", "weapon"}
            /\ alerts_log[i - 1].by = alerts_log[i].by

\* C13: once the newest session (the one video_writer names) has published a
\* frame, the preview buffer holds no frame of an earlier session: here, while
\* the newest session's run stands between publishing (line 161) and writing
\* (line 166), the buffer holds the frame that run has just published
C13_NoStaleFrame ==
    (video_writer # NoWriter /\ pc[video_writer] = "write")
        => (frame # NoFrame /\ frame.src = video_writer)

\* C14: a run that creates its session after an earlier run is over gets a
\* folder that no earlier run has: its recorded_video.mp4 is not in the earlier
\* run's folder and all_sessions does not hold the same path twice
C14_DistinctFolders ==
    [][\A t, u \in Tasks :
         (pc[t] = "open" /\ pc'[t] = "loop" /\ pc[u] = "done" /\ sinkFolder[u] # NoFolder)
            => /\ sinkFolder'[t] # sinkFolder[u]
               /\ \A i, j \in 1..Len(all_sessions') :
                    i # j => all_sessions'[i] # all_sessions'[j]]_vars

\* the fields of an alert: id, time stamp, message, category
AlertFields == {"id", "time", "msg", "type"}

\* C15: an export of the empty ledger writes no file (save_alerts_csv) and
\* answers 404 (/download_alerts); an export of a non-empty ledger gives a CSV
\* whose header names the alert fields and that has as many rows as the ledger
\* holds alerts at that time
C15_Export ==
    [][/\ \A t \in Tasks :
            (pc[t] = "save" /\ pc'[t] = "done") =>
               IF alerts_log = <<>>
                 THEN csvFiles' = csvFiles
                 ELSE /\ Len(csvFiles') = Len(csvFiles) + 1
                      /\ SubSeq(csvFiles', 1, Len(csvFiles)) = csvFiles
                      /\ csvFiles'[Len(csvFiles')].header = AlertFields
                      /\ Len(csvFiles'[Len(csvFiles')].rows) = Len(alerts_log)
       /\ (sent' # sent /\ sent'.route = "/download_alerts") =>
            IF alerts_log = <<>>
              THEN sent'.status = 404 /\ sent'.rows = <<>> /\ csvFiles' = csvFiles
              ELSE /\ sent'.status = 200
                   /\ sent'.header = AlertFields
                   /\ Len(sent'.rows) = Len(alerts_log)]_vars

\* /download_alerts has answered 404 on the empty ledger and, later, the end
\* of a session has exported the ledger, by then non-empty
C15_Witness ==
    /\ sent.route = "/download_alerts"
    /\ sent.status = 404
    /\ csvFiles # <<>>

\* C16: the session-end export reads the ledger under alerts_lock, so it sees
\* exactly the alerts of the add_alert calls completed before it: no call of
\* add_alert is between its append and its return when the file is written,
\* and the file has as many rows as calls have completed
C16_ExportUnderLock ==
    [][\A t \in Tasks :
         (pc[t] = "save" /\ pc'[t] = "done" /\ csvFiles' # csvFiles) =>
            /\ alerts_lock = 0
            /\ Len(csvFiles'[Len(csvFiles')].rows) = next_alert_id - 1]_vars

\* C17: when no camera_detection thread is alive, no session's video sink is
\* still open
C17_SinksClosed ==
    (\A t \in Tasks : ~Alive(t)) => (\A t \in Tasks : sink[t] # "open")

\* C18: video_writer.write is called on an open sink only, and the frame a
\* run has read and published is appended, once, to the sink of that run's
\* own session
C18_WriteToOwnOpenSink ==
    [][\A t \in Tasks :
         (pc[t] = "write" /\ pc'[t] = "loop") =>
            /\ video_writer # NoWriter
            /\ sink[video_writer] = "open"
            /\ video_writer = t
            /\ frame = Frame(t, nread[t])
            /\ sinkFrames'[t] = Append(sinkFrames[t], frame)
            /\ sinkFrames'[t] = FramesOf(t, nread[t])]_vars

\* C19: a session whose run is over has exactly one alerts_*.csv, written by
\* its run into the session's own folder
C19_CsvInOwnFolder ==
    \A t \in Tasks :
        (~Alive(t) /\ sinkFolder[t] # NoFolder) =>
            /\ Cardinality({i \in 1..Len(csvFiles) : csvFiles[i].by = t}) = 1
            /\ \A i \in 1..Len(csvFiles) :
                 csvFiles[i].by = t => csvFiles[i].folder = sinkFolder[t]

\* C20: camera_running is cleared only by an accepted stop_camera or by the
\* run started last (its own source failure or its own cleanup), never by
\* the cleanup of an earlier run
C20_FlagClearedByOwner ==
    [][(camera_running /\ ~camera_running') =>
          \/ pc' = pc /\ resp' = "Camera stopping"
          \/ pc'[nspawned] # pc[nspawned]]_vars

====
